---- MODULE Spec2Model ----
(***************************************************************************)
(* Enphase Envoy local monitoring: the poll / decode / write pipeline and  *)
(* the scheduler that drives it.  Two generations of the program are in    *)
(* the repository and both are modelled; `gen` says which one runs:        *)
(*   gen = 1  influxEnvoyStats/influxEnvoyStats.go  (batch writer)         *)
(*   gen = 2  unnamed/part_000                      (point-by-point writer)*)
(* Numbers of a JSON document are held in tenths (2505 is 250.5), so that  *)
(* the decoding into int64 and into float64 fields differ as in Go.        *)
(***************************************************************************)
EXTENDS Integers, Sequences, FiniteSets, TLC

\* ---------------------------------------------------------------- bounds
\* timer ticks the runtime fires in one run
MaxTicks == 3
\* longest consumption array the device sends
MaxCons == 2
\* longest production array the device sends
MaxProdLen == 3

\* ------------------------------------------------------- error values
Nil == "nil"
ErrRequest == "http.NewRequest: invalid URL"
ErrTransport == "envoyClient.Do: transport error"
ErrReadBody == "ioutil.ReadAll: read error"
ErrSyntax == "json: invalid character"
ErrEndOfInput == "json: unexpected end of JSON input"
ErrType == "json: cannot unmarshal value into Go value"
ErrNewPoint == "client.NewPoint: invalid point"
ErrNewClient == "client.NewHTTPClient: invalid address"
ErrWrite == "influx: write failed"

\* ------------------------------------------------------- JSON values
JNull == [t |-> "null"]
JNum(tenths) == [t |-> "num", n |-> tenths]
JStr(s) == [t |-> "str", s |-> s]
JArr(es) == [t |-> "arr", es |-> es]
JObj(f) == [t |-> "obj", f |-> f]
\* a json.RawMessage that was never set (nil)
NoRaw == [t |-> "absent"]
\* a body that is not JSON at all
Garbage == [t |-> "garbage"]

\* ------------------------------------------------------- the Eim struct
StringFields == {"MeasurementType"}
IntFields == {"ReadingTime"}
FloatFields == {"WNow", "WhLifetime", "VarhLeadLifetime", "VarhLagLifetime",
                "VahLifetime", "RmsCurrent", "RmsVoltage", "ReactPwr",
                "ApprntPwr", "PwrFactor", "WhToday", "WhLastSevenDays",
                "VahToday", "VarhLeadToday", "VarhLagToday"}
EimFields == StringFields \cup IntFields \cup FloatFields

\* Eim{}: every field at the zero value of its type
ZeroEim == [k \in EimFields |-> IF k \in StringFields THEN "" ELSE 0]

\* encoding/json binds a JSON key to the struct field whose name equals it
\* under case folding; the keys the device (or a changed firmware) sends:
KeyField(key) ==
    CASE key = "measurementType" -> "MeasurementType"
      [] key = "readingTime" -> "ReadingTime"
      [] key = "wNow" -> "WNow"
      [] key = "WNOW" -> "WNow"
      [] key = "whLifetime" -> "WhLifetime"
      [] key = "activeCount" -> "ActiveCount"
      [] key = "production" -> "Production"
      [] key = "consumption" -> "Consumption"
      [] key = "storage" -> "Storage"
      [] OTHER -> "-"

\* the error of storing JSON value v into the struct field named k (string,
\* int or int64, else float64)
StoreErr(k, v) ==
    IF v.t = "null" THEN Nil
    ELSE IF k \in StringFields THEN (IF v.t = "str" THEN Nil ELSE ErrType)
    ELSE IF k \in IntFields \cup {"ActiveCount"}
         THEN (IF v.t = "num" /\ v.n % 10 = 0 THEN Nil ELSE ErrType)
    ELSE (IF v.t = "num" THEN Nil ELSE ErrType)

\* the value the field holds afterwards (old is what it held before)
StoreVal(k, v, old) ==
    IF StoreErr(k, v) # Nil \/ v.t = "null" THEN old
    ELSE IF k \in StringFields THEN v.s
    ELSE IF k \in IntFields THEN v.n \div 10
    ELSE v.n

\* the first error of a sequence of errors (json's d.saveError keeps the first)
FirstErr(errs) ==
    IF \E i \in 1..Len(errs) : errs[i] # Nil
    THEN errs[CHOOSE i \in 1..Len(errs) :
                 errs[i] # Nil /\ \A j \in 1..(i-1) : errs[j] = Nil]
    ELSE Nil

\* the JSON key of object o that binds to field k, or "-" if none does
BoundKey(o, k) ==
    IF \E key \in DOMAIN o.f : KeyField(key) = k
    THEN CHOOSE key \in DOMAIN o.f : KeyField(key) = k
    ELSE "-"

\* json.Unmarshal of one JSON value into an Eim that holds `old`
UnmarshalEim(v, old) ==
    IF v.t = "null" THEN [val |-> old, err |-> Nil]
    ELSE IF v.t # "obj" THEN [val |-> old, err |-> ErrType]
    ELSE [val |-> [k \in EimFields |->
                      IF BoundKey(v, k) = "-" THEN old[k]
                      ELSE StoreVal(k, v.f[BoundKey(v, k)], old[k])],
          err |-> IF \E k \in EimFields :
                        BoundKey(v, k) # "-" /\ StoreErr(k, v.f[BoundKey(v, k)]) # Nil
                  THEN ErrType ELSE Nil]

\* json.Unmarshal of one JSON value into Inverters{ActiveCount int}
UnmarshalInverters(v) ==
    IF v.t = "null" THEN Nil
    ELSE IF v.t # "obj" THEN ErrType
    ELSE IF \E key \in DOMAIN v.f :
               KeyField(key) = "ActiveCount" /\ StoreErr("ActiveCount", v.f[key]) # Nil
         THEN ErrType ELSE Nil


\* the json.RawMessage field k of apiJsonObj after the top-level Unmarshal
RawField(o, k) ==
    IF BoundKey(o, k) = "-" THEN NoRaw ELSE o.f[BoundKey(o, k)]

\* json.Unmarshal(jsonData, &apiJsonObj)
UnmarshalTop(body) ==
    IF body.t = "garbage"
    THEN [production |-> NoRaw, consumption |-> NoRaw, err |-> ErrSyntax]
    ELSE IF body.t = "null"
    THEN [production |-> NoRaw, consumption |-> NoRaw, err |-> Nil]
    ELSE IF body.t # "obj"
    THEN [production |-> NoRaw, consumption |-> NoRaw, err |-> ErrType]
    ELSE [production |-> RawField(body, "Production"),
          consumption |-> RawField(body, "Consumption"),
          err |-> Nil]

\* a decoder that takes the reading from the first element of the array
UnmarshalProductionFirst(raw) ==
    IF raw.t = "absent" THEN [prod |-> ZeroEim, err |-> ErrEndOfInput]
    ELSE IF raw.t = "null" THEN [prod |-> ZeroEim, err |-> Nil]
    ELSE IF raw.t # "arr" THEN [prod |-> ZeroEim, err |-> ErrType]
    ELSE IF Len(raw.es) = 0 THEN [prod |-> ZeroEim, err |-> Nil]
    ELSE [prod |-> UnmarshalEim(raw.es[1], ZeroEim).val,
          err |-> UnmarshalEim(raw.es[1], ZeroEim).err]

\* json.Unmarshal(apiJsonObj.Production, &productionObj) where productionObj
\* is []interface{}{&inverters, &prodReadings}: element 1 of the array goes
\* into inverters, element 2 into prodReadings, further elements into fresh
\* interface values; a shorter array only truncates the slice.
UnmarshalProduction(raw) ==
    IF raw.t = "absent" THEN [prod |-> ZeroEim, err |-> ErrEndOfInput]
    ELSE IF raw.t = "null" THEN [prod |-> ZeroEim, err |-> Nil]
    ELSE IF raw.t # "arr" THEN [prod |-> ZeroEim, err |-> ErrType]
    ELSE LET n == Len(raw.es)
             e1 == IF n >= 1 THEN UnmarshalInverters(raw.es[1]) ELSE Nil
             r2 == IF n >= 2 THEN UnmarshalEim(raw.es[2], ZeroEim)
                   ELSE [val |-> ZeroEim, err |-> Nil]
         IN  [prod |-> r2.val, err |-> FirstErr(<<e1, r2.err>>)]

\* json.Unmarshal(apiJsonObj.Consumption, &consumptionReadings) into []Eim{}
UnmarshalConsumption(raw) ==
    IF raw.t = "absent" THEN [cons |-> <<>>, err |-> ErrEndOfInput]
    ELSE IF raw.t = "null" THEN [cons |-> <<>>, err |-> Nil]
    ELSE IF raw.t # "arr" THEN [cons |-> <<>>, err |-> ErrType]
    ELSE LET rs == [i \in 1..Len(raw.es) |-> UnmarshalEim(raw.es[i], ZeroEim)]
         IN  [cons |-> [i \in 1..Len(raw.es) |-> rs[i].val],
              err |-> FirstErr([i \in 1..Len(raw.es) |-> rs[i].err])]

\* pollEnvoy: the three results it returns, given how the HTTP exchange went
\* ("norequest": http.NewRequest refused the URL and nothing was sent)
pollEnvoy(resp) ==
    IF resp.k = "norequest"
    THEN [prod |-> ZeroEim, cons |-> <<>>, err |-> ErrRequest]
    ELSE IF resp.k = "transport"
    THEN [prod |-> ZeroEim, cons |-> <<>>, err |-> ErrTransport]
    ELSE IF resp.k = "readbody"
    THEN [prod |-> ZeroEim, cons |-> <<>>, err |-> ErrReadBody]
    ELSE LET top == UnmarshalTop(resp.body)
             p == UnmarshalProduction(top.production)
             c == UnmarshalConsumption(top.consumption)
         IN  IF top.err # Nil
             THEN [prod |-> ZeroEim, cons |-> <<>>, err |-> top.err]
             ELSE IF p.err # Nil
             THEN [prod |-> p.prod, cons |-> <<>>, err |-> p.err]
             ELSE [prod |-> p.prod, cons |-> c.cons, err |-> c.err]

\* ------------------------------------------------------- the writer
\* time.Unix(sec, 0)
TimeUnix(sec, nsec) == [sec |-> sec, nsec |-> nsec]

\* NewPoint(measurement, tags, fields, createdTime) for one reading
NewPoint(measurement, reading) ==
    [name |-> measurement,
     tags |-> [type |-> reading["MeasurementType"]],
     fields |-> [watts |-> reading["WNow"]],
     time |-> TimeUnix(reading["ReadingTime"], 0)]

\* a writer that puts the production reading first
ReadingsProdFirst(prod, cons) == <<prod>> \o cons

\* readings := append(consumptionReadings, prodReadings)
Readings(prod, cons) == Append(cons, prod)

\* the points of one call, in the order the loop builds them
Points(measurement, prod, cons) ==
    [i \in 1..Len(Readings(prod, cons)) |->
        NewPoint(measurement, Readings(prod, cons)[i])]

\* ------------------------------------------------------- inputs
\* the flag defaults of main
MeasurementName == "readings"

ObjInv == JObj([activeCount |-> JNum(160)])
ObjP == JObj([measurementType |-> JStr("production"),
              readingTime |-> JNum(30), wNow |-> JNum(2505),
              whLifetime |-> JNum(99)])
ObjA == JObj([measurementType |-> JStr("total-consumption"),
              readingTime |-> JNum(20), wNow |-> JNum(4000)])
ObjB == JObj([measurementType |-> JStr("net-consumption"),
              readingTime |-> JNum(20), wNow |-> JNum(-15)])
\* a changed firmware: other key case, an unknown key, a key left out
ObjCase == JObj([measurementType |-> JStr("production"),
                 WNOW |-> JNum(10), unknown |-> JStr("x")])
\* a reading whose wNow is a string, and one whose readingTime is 2.5
ObjBadWatts == JObj([measurementType |-> JStr("production"),
                     readingTime |-> JNum(30), wNow |-> JStr("n/a")])
ObjFracTime == JObj([measurementType |-> JStr("production"),
                     readingTime |-> JNum(25), wNow |-> JNum(10)])

\* what may stand as second element of the production array
ProdSecond == {ObjP, ObjCase, ObjInv, ObjBadWatts, ObjFracTime,
               JNull, JNum(10), JStr("x"), JArr(<<>>)}

ProdArrays ==
    {JArr(<<>>), JArr(<<ObjInv>>), JArr(<<JNum(10), ObjP>>)}
    \cup {JArr([i \in 1..n |-> IF i = 1 THEN ObjInv
                               ELSE IF i = 2 THEN e ELSE JStr("extra")]) :
            e \in ProdSecond, n \in 2..MaxProdLen}

ProdRaws == ProdArrays \cup {NoRaw, JNull, ObjInv}

ConsArrays ==
    {JArr(es) : es \in UNION {[1..n -> {ObjA, ObjB}] : n \in 0..MaxCons}}
    \cup {JArr(<<JNum(10)>>), JArr(<<ObjA, JStr("x")>>), JArr(<<JNull, ObjB>>),
          JArr(<<ObjBadWatts>>)}

ConsRaws == ConsArrays \cup {NoRaw, JNull, JNum(10)}

\* the top-level document with the given production and consumption members
Doc(p, c) ==
    JObj([k \in {"storage"}
                \cup (IF p.t = "absent" THEN {} ELSE {"production"})
                \cup (IF c.t = "absent" THEN {} ELSE {"consumption"}) |->
             IF k = "production" THEN p
             ELSE IF k = "consumption" THEN c
             ELSE JArr(<<>>)])

Bodies ==
    {Garbage, JNull, JArr(<<>>)}
    \cup {Doc(p, JArr(<<ObjA>>)) : p \in ProdRaws}
    \cup {Doc(JArr(<<ObjInv, ObjP>>), c) : c \in ConsRaws}

\* the outcomes of one HTTP exchange with the device
Responses ==
    {[k |-> "transport"], [k |-> "readbody"]}
    \cup {[k |-> "body", body |-> b] : b \in Bodies}

NoResp == [k |-> "none"]
NoRequest == [k |-> "norequest"]

\* ------------------------------------------------------- state
VARIABLES
    gen,            \* which generation of the program runs (1 or 2)
    loopInterval,   \* *loopIntervalPtr, in tick units
    urlOk,          \* the configured host gives a URL http.NewRequest accepts
    addrOk,         \* the configured database address is one the client accepts
    pc,             \* where main is
    tickerC,        \* ticker.C: the ticks waiting in the channel
    fired,          \* ticks the runtime timer has fired
    dropped,        \* ticks the runtime dropped because ticker.C was full
    cycles,         \* calls of poll so far
    cycleTick,      \* the tick whose receipt started the running cycle
    resp,           \* the HTTP exchange of the running cycle
    prodReadings,   \* poll's prodReadings
    consumptionReadings, \* poll's consumptionReadings
    err,            \* poll's err
    idx,            \* index of the reading the writer's loop is at
    written,        \* points the database accepted in the latest writer call
    attempts,       \* write calls made in the latest writer call
    influxClient,   \* monitor.influxClient: 0 is nil, else the client's number
    clientsMade,    \* database clients constructed so far
    closed,         \* the deferred Close ran on the client
    mainErr,        \* main's err: what the latest poll returned
    logged,         \* the "Error: ..." line main printed for that poll
    errorLines,     \* "Error: ..." lines main has printed so far
    panicValue      \* the value main panicked with

vars == <<gen, loopInterval, urlOk, addrOk, pc, tickerC, fired, dropped, cycles,
          cycleTick, resp, prodReadings, consumptionReadings, err, idx, written,
          attempts, influxClient, clientsMade, closed, mainErr, logged,
          errorLines, panicValue>>

config == <<gen, loopInterval, urlOk, addrOk>>
ticker == <<tickerC, fired, dropped>>
locals == <<resp, prodReadings, consumptionReadings, err, idx>>

\* capacity of the channel time.NewTicker makes (go 1.16)
TickerCap == 1

NoTick == [during |-> -1]

Init ==
    /\ gen \in {1, 2}
    /\ loopInterval \in {0, 1}
    /\ urlOk \in BOOLEAN
    /\ addrOk \in BOOLEAN
    /\ pc = "main"
    /\ tickerC = <<>>
    /\ fired = 0
    /\ dropped = 0
    /\ cycles = 0
    /\ cycleTick = NoTick
    /\ resp = NoResp
    /\ prodReadings = ZeroEim
    /\ consumptionReadings = <<>>
    /\ err = Nil
    /\ idx = 0
    /\ written = <<>>
    /\ attempts = 0
    /\ influxClient = 0
    /\ clientsMade = 0
    /\ closed = FALSE
    /\ mainErr = Nil
    /\ logged = Nil
    /\ errorLines = 0
    /\ panicValue = Nil

\* ------------------------------------------------------- main
\* `if *loopIntervalPtr > 0`
Repeating(interval) == interval > 0

\* a main that polls at once after making the ticker
AfterNewTickerPollNow == "pollEnvoy"

\* where main is once the ticker exists: at the select, waiting for a tick
AfterNewTicker == "select"

\* a main for which an error is fatal in the loop too
AfterPollFatal(e) ==
    IF e # Nil THEN "panic"
    ELSE IF loopInterval > 0 THEN "select" ELSE "exit"

\* a main that ignores the error of the one-shot poll
AfterPollSwallow(e) ==
    IF loopInterval > 0 THEN "select" ELSE "exit"

\* where main goes when poll has returned e
AfterPoll(e) ==
    IF Repeating(loopInterval) THEN "select"
    ELSE IF e # Nil THEN "panic" ELSE "exit"

\* a ticker whose channel holds one tick more
TickKeptTwo(c) == Len(c) < TickerCap + 1

\* the runtime's send on ticker.C: kept while the channel has room, else dropped
TickKept(c) == Len(c) < TickerCap

Running == {"pollEnvoy", "polled", "writePoint"}

\* poll returns e to main, which prints it (loop) or panics with it (one
\* shot); leaving main runs the deferred Close on the client, if there is one
Finish(e, client) ==
    /\ pc' = AfterPoll(e)
    /\ mainErr' = e
    /\ logged' = IF AfterPoll(e) = "select" /\ e # Nil THEN e ELSE Nil
    /\ errorLines' = IF AfterPoll(e) = "select" /\ e # Nil THEN errorLines + 1
                     ELSE errorLines
    /\ panicValue' = IF AfterPoll(e) = "panic" THEN e ELSE panicValue
    /\ closed' = IF AfterPoll(e) \in {"panic", "exit"} THEN client # 0 ELSE closed

\* main, repeating mode: time.NewTicker, then the for/select
StartLoop ==
    /\ pc = "main"
    /\ Repeating(loopInterval)
    /\ pc' = AfterNewTicker
    /\ cycles' = IF AfterNewTicker = "select" THEN cycles ELSE cycles + 1
    /\ UNCHANGED <<config, ticker, cycleTick, locals, written, attempts,
                   influxClient, clientsMade, closed, mainErr, logged, errorLines,
                   panicValue>>

\* main, one-shot mode: the single call of poll
StartOnce ==
    /\ pc = "main"
    /\ ~Repeating(loopInterval)
    /\ pc' = "pollEnvoy"
    /\ cycles' = cycles + 1
    /\ UNCHANGED <<config, ticker, cycleTick, locals, written, attempts,
                   influxClient, clientsMade, closed, mainErr, logged, errorLines,
                   panicValue>>

\* the runtime timer fires: a tick is sent on ticker.C without blocking
TickerFire ==
    /\ Repeating(loopInterval)
    /\ pc # "main"
    /\ fired < MaxTicks
    /\ fired' = fired + 1
    /\ IF TickKept(tickerC)
       THEN /\ tickerC' = Append(tickerC,
                  [during |-> IF pc \in Running THEN cycles ELSE 0])
            /\ UNCHANGED dropped
       ELSE /\ dropped' = dropped + 1
            /\ UNCHANGED tickerC
    /\ UNCHANGED <<config, pc, cycles, cycleTick, locals, written, attempts,
                   influxClient, clientsMade, closed, mainErr, logged, errorLines,
                   panicValue>>

\* `case <-ticker.C:` main receives a tick and calls poll; what the previous
\* turn of the loop left in its variables is gone
SelectTick ==
    /\ pc = "select"
    /\ tickerC # <<>>
    /\ cycleTick' = Head(tickerC)
    /\ tickerC' = Tail(tickerC)
    /\ pc' = "pollEnvoy"
    /\ cycles' = cycles + 1
    /\ resp' = NoResp
    /\ prodReadings' = ZeroEim
    /\ consumptionReadings' = <<>>
    /\ err' = Nil
    /\ idx' = 0
    /\ written' = <<>>
    /\ attempts' = 0
    /\ mainErr' = Nil
    /\ logged' = Nil
    /\ UNCHANGED <<config, fired, dropped, influxClient, clientsMade, closed,
                   errorLines, panicValue>>

\* ------------------------------------------------------- poll
\* pollEnvoy runs: one HTTP exchange r and the decoding of its body
PollEnvoy(r) ==
    /\ pc = "pollEnvoy"
    /\ r \in (IF urlOk THEN Responses ELSE {NoRequest})
    /\ resp' = r
    /\ prodReadings' = pollEnvoy(r).prod
    /\ consumptionReadings' = pollEnvoy(r).cons
    /\ err' = pollEnvoy(r).err
    /\ pc' = "polled"
    /\ UNCHANGED <<config, ticker, cycles, cycleTick, idx, written, attempts,
                   influxClient, clientsMade, closed, mainErr, logged, errorLines,
                   panicValue>>

\* a poll that goes on to the writer whatever pollEnvoy returned
PollNeverFailed(e) == FALSE

\* `if err != nil { return }` after pollEnvoy
PollFailed(e) == e # Nil

\* poll returns pollEnvoy's error without calling the writer
PollReturnErr ==
    /\ pc = "polled"
    /\ PollFailed(err)
    /\ Finish(err, influxClient)
    /\ UNCHANGED <<config, ticker, cycles, cycleTick, locals, written, attempts,
                   influxClient, clientsMade>>

\* ------------------------------------------------------- writeToInflux
\* a writer that makes a client on every call
NeedClientAlways(client) == TRUE

\* `if monitor.influxClient == nil`
NeedClient(client) == client = 0

\* a writer that ignores the error of a write
WriteNeverFailed(ok) == FALSE

\* `if err != nil { return }` after a write
WriteFailed(ok) == ~ok

\* generation 1: the batch is built point by point (NewPoint may refuse a
\* point), the client is made on first need (NewHTTPClient refuses a bad
\* address), and the batch is written in one call
WriteToInfluxV1(pointOk, writeOk) ==
    /\ pc = "polled"
    /\ ~PollFailed(err)
    /\ gen = 1
    /\ LET bp == Points(MeasurementName, prodReadings, consumptionReadings)
           make == pointOk /\ NeedClient(influxClient) /\ addrOk
           client == IF make THEN clientsMade + 1 ELSE influxClient
           e == IF ~pointOk THEN ErrNewPoint
                ELSE IF NeedClient(influxClient) /\ ~addrOk THEN ErrNewClient
                ELSE IF WriteFailed(writeOk) THEN ErrWrite
                ELSE Nil
       IN  /\ influxClient' = client
           /\ clientsMade' = IF make THEN clientsMade + 1 ELSE clientsMade
           /\ attempts' = IF e \in {Nil, ErrWrite} THEN 1 ELSE 0
           /\ written' = IF e = Nil THEN bp ELSE <<>>
           /\ Finish(e, client)
    /\ UNCHANGED <<config, ticker, cycles, cycleTick, locals>>

\* generation 2: the client is made on first need, then the loop starts
WriteToInfluxV2 ==
    /\ pc = "polled"
    /\ ~PollFailed(err)
    /\ gen = 2
    /\ influxClient' = IF NeedClient(influxClient) THEN clientsMade + 1
                       ELSE influxClient
    /\ clientsMade' = IF NeedClient(influxClient) THEN clientsMade + 1
                      ELSE clientsMade
    /\ idx' = 1
    /\ pc' = "writePoint"
    /\ UNCHANGED <<config, ticker, cycles, cycleTick, resp, prodReadings,
                   consumptionReadings, err, written, attempts, closed, mainErr,
                   logged, errorLines, panicValue>>

\* generation 2: one turn of the loop, writeAPI.WritePoint of reading idx
WritePoint(ok) ==
    /\ pc = "writePoint"
    /\ attempts' = attempts + 1
    /\ written' = IF ok
                  THEN Append(written,
                         Points(MeasurementName, prodReadings, consumptionReadings)[idx])
                  ELSE written
    /\ IF WriteFailed(ok)
       THEN Finish(ErrWrite, influxClient) /\ UNCHANGED idx
       ELSE IF idx = Len(Readings(prodReadings, consumptionReadings))
       THEN Finish(Nil, influxClient) /\ UNCHANGED idx
       ELSE /\ idx' = idx + 1
            /\ UNCHANGED <<pc, closed, mainErr, logged, errorLines, panicValue>>
    /\ UNCHANGED <<config, ticker, cycles, cycleTick, resp, prodReadings,
                   consumptionReadings, err, influxClient, clientsMade>>

Next ==
    \/ StartLoop
    \/ StartOnce
    \/ TickerFire
    \/ SelectTick
    \/ \E r \in Responses \cup {NoRequest} : PollEnvoy(r)
    \/ PollReturnErr
    \/ \E pointOk \in BOOLEAN, writeOk \in BOOLEAN : WriteToInfluxV1(pointOk, writeOk)
    \/ WriteToInfluxV2
    \/ \E ok \in BOOLEAN : WritePoint(ok)

Spec == Init /\ [][Next]_vars

\* ------------------------------------------------------- properties
\* poll has returned to main in the latest turn (and no new turn has begun)
Returned == pc \in {"select", "exit", "panic"} /\ cycles >= 1

\* the writer was entered in the latest turn and has returned
WriterReturned == Returned /\ err = Nil

\* C1: in repeating mode a failing cycle never ends the loop: main is back at
\* the select with the error printed (one more "Error:" line, nothing
\* panicked, nothing closed), a waiting tick can be received, and the cycle
\* a tick starts is fresh.
C1_LoopSurvivesFailure ==
    Repeating(loopInterval) =>
        /\ pc \notin {"exit", "panic"}
        /\ panicValue = Nil /\ ~closed
        /\ (mainErr # Nil => pc = "select" /\ logged = mainErr /\ errorLines >= 1)
        /\ (pc = "select" /\ tickerC # <<>> => ENABLED SelectTick)
        /\ (pc = "pollEnvoy" =>
               resp = NoResp /\ err = Nil /\ mainErr = Nil /\ written = <<>>)
        /\ errorLines <= cycles

\* a cycle was started by a tick after an earlier cycle had failed
C1_Witness ==
    /\ Repeating(loopInterval)
    /\ errorLines >= 1
    /\ cycles >= 2
    /\ pc = "polled"
    /\ cycleTick.during = 0

\* C2: in one-shot mode exactly one cycle is run: an error of it makes main
\* panic with that error, a success makes main return, and nothing runs after.
C2_OneShot ==
    ~Repeating(loopInterval) =>
        /\ cycles <= 1
        /\ pc # "select" /\ fired = 0 /\ errorLines = 0
        /\ (pc \in {"exit", "panic"} => cycles = 1 /\ ~ENABLED Next)
        /\ (pc = "panic" => mainErr # Nil /\ panicValue = mainErr)
        /\ (pc = "exit" => mainErr = Nil /\ panicValue = Nil)
        /\ (pc \in {"exit", "panic"} /\ err # Nil => pc = "panic" /\ mainErr = err)

\* a one-shot run that a write error ended
C2_Witness ==
    /\ ~Repeating(loopInterval)
    /\ pc = "panic"
    /\ panicValue = ErrWrite
    /\ cycles = 1

\* C3 as claimed: in repeating mode a cycle has run by the time main first
\* waits for a tick.
C3_ImmediateCycle ==
    Repeating(loopInterval) /\ pc = "select" => cycles >= 1

\* C3 as amended: in repeating mode no cycle runs at startup; every cycle is
\* started by the receipt of a tick, so the cycles are exactly the ticks
\* received (fired, and neither dropped nor still waiting).
C3_CyclesFollowTicks ==
    Repeating(loopInterval) =>
        /\ cycles = fired - dropped - Len(tickerC)
        /\ (pc \in Running => cycleTick # NoTick)
        /\ (fired = 0 => cycles = 0)

\* the first cycle, running on the first tick
C3_Witness ==
    /\ Repeating(loopInterval)
    /\ fired = 1
    /\ cycles = 1
    /\ pc = "pollEnvoy"

\* C4 as claimed: at most one client is made, and once the writer has been
\* invoked the client exists.
C4_FirstInvocationCreates ==
    /\ clientsMade <= 1
    /\ (WriterReturned => influxClient # 0)

\* C4 as amended: at most one client is ever made, it is the one every later
\* invocation uses, and it exists once an invocation of the writer has got as
\* far as writing (a writer call that fails before that makes none).
C4_ClientOnce ==
    /\ clientsMade <= 1
    /\ influxClient = clientsMade
    /\ (attempts >= 1 => influxClient = 1)
    /\ (pc = "writePoint" => influxClient = 1)
    /\ (WriterReturned /\ mainErr \in {Nil, ErrWrite} => influxClient = 1)

\* a third cycle writing with the client the first made
C4_Witness ==
    /\ cycles = 3
    /\ attempts >= 1
    /\ clientsMade = 1

\* the point a reading is written as
IsPointOf(pt, r) ==
    /\ pt.name = MeasurementName
    /\ DOMAIN pt.tags = {"type"}
    /\ pt.tags.type = r["MeasurementType"]
    /\ DOMAIN pt.fields = {"watts"}
    /\ pt.fields.watts = r["WNow"]
    /\ pt.time.sec = r["ReadingTime"]
    /\ pt.time.nsec = 0

\* C5: a successful write of one production reading and K-1 consumption
\* readings leaves exactly K points: the consumption readings in their order,
\* then the production reading, each with the configured name, tag type,
\* field watts and the reading's time in epoch seconds.
C5_PointsInOrder ==
    WriterReturned /\ mainErr = Nil =>
        /\ Len(written) = Len(consumptionReadings) + 1
        /\ \A i \in 1..Len(consumptionReadings) :
              IsPointOf(written[i], consumptionReadings[i])
        /\ IsPointOf(written[Len(written)], prodReadings)

\* three points written from two different consumption readings and one
\* production reading
C5_Witness ==
    /\ WriterReturned /\ mainErr = Nil
    /\ Len(written) = 3
    /\ consumptionReadings[1] # consumptionReadings[2]
    /\ prodReadings # consumptionReadings[2]

\* C6: once a write has failed (more writes attempted than points accepted)
\* the writer has returned the write error: the points accepted before it
\* are the first attempts-1 points of the call, still there, and neither
\* the failed point nor a later one is attempted.
C6_StopAtFirstFailure ==
    attempts > Len(written) =>
        /\ pc \in {"select", "panic"}
        /\ mainErr = ErrWrite
        /\ attempts = Len(written) + 1
        /\ Len(written) < Len(Points(MeasurementName, prodReadings, consumptionReadings))
        /\ written = SubSeq(Points(MeasurementName, prodReadings, consumptionReadings),
                            1, Len(written))

\* the second of three points failed after the first was written
C6_Witness ==
    /\ gen = 2
    /\ mainErr = ErrWrite
    /\ Len(written) = 1
    /\ attempts = 2
    /\ Len(consumptionReadings) = 2

\* the production member of the document the device sent, if it sent one
SentProduction ==
    IF resp.k = "body" /\ resp.body.t = "obj" /\ "production" \in DOMAIN resp.body.f
    THEN resp.body.f["production"] ELSE NoRaw

SentConsumption ==
    IF resp.k = "body" /\ resp.body.t = "obj" /\ "consumption" \in DOMAIN resp.body.f
    THEN resp.body.f["consumption"] ELSE NoRaw

\* C7 as claimed: a production array with fewer than 2 elements, or whose
\* second element is not an object, makes pollEnvoy return an error and no
\* readings, and the cycle writes no point.
C7_ShortProductionFails ==
    /\ pc # "pollEnvoy"
    /\ SentProduction.t = "arr"
    /\ (Len(SentProduction.es) < 2 \/ SentProduction.es[2].t # "obj")
    => /\ err # Nil
       /\ prodReadings = ZeroEim
       /\ consumptionReadings = <<>>
       /\ written = <<>>

\* a reading object as the device sends it: the three keys that are written
\* on, every known key with a value of its field's type
WellTyped(o) ==
    /\ o.t = "obj"
    /\ {"measurementType", "readingTime", "wNow"} \subseteq DOMAIN o.f
    /\ \A key \in DOMAIN o.f :
          \/ KeyField(key) \notin EimFields
          \/ /\ KeyField(key) \in StringFields
             /\ o.f[key].t = "str"
          \/ /\ KeyField(key) \in IntFields
             /\ o.f[key].t = "num"
             /\ o.f[key].n % 10 = 0
          \/ /\ KeyField(key) \in FloatFields
             /\ o.f[key].t = "num"

\* reading r holds what object o says, and zero where o says nothing
Holds(r, o) ==
    /\ r["MeasurementType"] = o.f["measurementType"].s
    /\ r["ReadingTime"] * 10 = o.f["readingTime"].n
    /\ r["WNow"] = o.f["wNow"].n
    /\ \A k \in EimFields :
          (\A key \in DOMAIN o.f : KeyField(key) # k) => r[k] = ZeroEim[k]

\* a valid device document: production is an array of an inverter summary
\* object and a reading object (and maybe more), consumption an array of
\* reading objects
ValidDoc ==
    /\ SentProduction.t = "arr"
    /\ Len(SentProduction.es) >= 2
    /\ SentProduction.es[1].t = "obj"
    /\ WellTyped(SentProduction.es[2])
    /\ SentConsumption.t = "arr"
    /\ \A i \in 1..Len(SentConsumption.es) : WellTyped(SentConsumption.es[i])

\* C8: for a valid document with N consumption entries pollEnvoy returns no
\* error, the production reading of the second element of the production
\* array, and the N consumption readings in the order sent.
C8_ValidDocDecodes ==
    pc # "pollEnvoy" /\ ValidDoc =>
        /\ err = Nil
        /\ Holds(prodReadings, SentProduction.es[2])
        /\ Len(consumptionReadings) = Len(SentConsumption.es)
        /\ \A i \in 1..Len(SentConsumption.es) :
              Holds(consumptionReadings[i], SentConsumption.es[i])

\* a valid document with two different consumption entries, decoded
C8_Witness ==
    /\ pc = "polled"
    /\ ValidDoc
    /\ Len(SentConsumption.es) = 2
    /\ SentConsumption.es[1] # SentConsumption.es[2]
    /\ Len(consumptionReadings) = 2

\* a valid document with no consumption entry, decoded
C8_WitnessEmpty ==
    /\ pc = "polled"
    /\ ValidDoc
    /\ SentConsumption.es = <<>>
    /\ prodReadings["WNow"] = 2505

\* C9 as claimed: no cycle is started by a tick that fired while a cycle was
\* running.
C9_NoBufferedTick ==
    pc \in Running => cycleTick.during <= 0

\* C9 as amended: ticker.C holds at most one tick; a tick that fired during a
\* cycle and found the channel empty waits there and starts the very next
\* cycle; every other tick fired meanwhile is dropped, so no tick starts a
\* cycle later than that.
C9_OneTickBuffered ==
    Repeating(loopInterval) =>
        /\ Len(tickerC) <= 1
        /\ (pc \in Running /\ cycleTick.during > 0 => cycleTick.during = cycles - 1)
        /\ \A i \in 1..Len(tickerC) : tickerC[i].during \in {0, cycles}
        /\ (dropped > 0 => fired >= 2)
        /\ fired = cycles + Len(tickerC) + dropped

\* a cycle started by the tick that was buffered during the previous cycle,
\* a later tick of that cycle having been dropped
C9_Witness ==
    /\ pc \in Running
    /\ cycleTick.during = cycles - 1
    /\ cycleTick.during > 0
    /\ dropped >= 1

\* C10: when pollEnvoy has returned an error the writer is not invoked: the
\* cycle writes no point and attempts none, the step that ends it leaves the
\* client as it was and hands main that same error.
C10_NoWriteAfterPollError ==
    /\ [](err # Nil /\ pc # "pollEnvoy" =>
             /\ written = <<>>
             /\ attempts = 0
             /\ pc # "writePoint"
             /\ (Returned => mainErr = err))
    /\ [][pc = "polled" /\ err # Nil =>
             /\ influxClient' = influxClient
             /\ clientsMade' = clientsMade
             /\ written' = written
             /\ pc' \in {"polled", "select", "panic"}]_vars

\* a cycle ended by a consumption decode error after the production reading
\* had been decoded
C10_Witness ==
    /\ Returned
    /\ err = ErrType
    /\ mainErr = ErrType
    /\ prodReadings["MeasurementType"] = "production"
    /\ SentConsumption.t = "arr"

====
